---- MODULE Spec2Model ----
(***************************************************************************)
(* WindDataAnalyzer (wind_analyzer.py) as a state machine.                 *)
(*                                                                         *)
(* The analyzer object holds one field, self.data: None or a pandas        *)
(* DataFrame.  A DataFrame is modelled as a record                         *)
(*    [isNone, hasTs, rows, direction_bin, hour]                           *)
(* where rows is the sequence of samples (timestamp, wind_speed,           *)
(* wind_direction) and direction_bin / hour are the helper columns the     *)
(* queries add to the frame.  Every public method is one action; the       *)
(* action records which method ran (call) and what it returned or raised   *)
(* (result).                                                               *)
(*                                                                         *)
(* Units.  wind_speed: integer m/s.  wind_direction: integer degrees.      *)
(* timestamp: integer half-hours since midnight of day 0.  air_density:    *)
(* integer thousandths of kg/m^3.  Floating-point values are exact         *)
(* rationals [k |-> "num", n, d] (n/d, d > 0), a square root of a rational *)
(* [k |-> "sqrt", n, d], NaN [k |-> "nan"] (pandas' missing value) or an   *)
(* infinity [k |-> "inf", n |-> sign].                                     *)
(***************************************************************************)
EXTENDS Integers, Sequences, FiniteSets

VARIABLES data, table, call, result

vars == <<data, table, call, result>>

-----------------------------------------------------------------------------
(* Bounds of the model *)

\* the longest frame; frames are all sequences of at most MaxLen samples
MaxLen == 2

SpeedValues == {-2, 0, 2}
DirectionValues == {-50, 380}
\* a frame's timestamps are half-hourly readings from one of these starts
StartValues == {0, 47}
BinsArgs == {1, 8, 16}
ThresholdArgs == {0, 2}
WindowArgs == 1..(MaxLen + 1)
AirDensityArgs == {1225, 2450}

-----------------------------------------------------------------------------
(* Floating-point values *)

NaN == [k |-> "nan", n |-> 0, d |-> 1]

Inf(sign) == [k |-> "inf", n |-> sign, d |-> 1]

Num(n) == [k |-> "num", n |-> n, d |-> 1]

\* IEEE division of the integers n and d: x/0 is an infinity, 0/0 is NaN
Flt(n, d) ==
  IF d = 0 THEN (IF n = 0 THEN NaN ELSE Inf(IF n > 0 THEN 1 ELSE -1))
  ELSE IF d < 0 THEN [k |-> "num", n |-> -n, d |-> -d]
  ELSE [k |-> "num", n |-> n, d |-> d]

\* x / y for x, y numbers
FltDiv(x, y) ==
  IF x.k = "nan" \/ y.k = "nan" THEN NaN
  ELSE Flt(x.n * y.d, x.d * y.n)

\* int(): truncation toward zero of n/d, d > 0  (Series.astype(int))
Trunc(n, d) == IF n >= 0 THEN n \div d ELSE -((-n) \div d)

\* round(): n/d to the nearest integer, halves to the even one (numpy.round)
Round(n, d) ==
  LET f == n \div d
      r == n - f * d
  IN  IF 2 * r < d THEN f
      ELSE IF 2 * r > d THEN f + 1
      ELSE IF f % 2 = 0 THEN f ELSE f + 1

-----------------------------------------------------------------------------
(* Sequences of integers *)

RECURSIVE Sum(_)
Sum(s) == IF s = <<>> THEN 0 ELSE Head(s) + Sum(Tail(s))

SumSq(s) == Sum([i \in 1..Len(s) |-> s[i] * s[i]])

Range(s) == {s[i] : i \in 1..Len(s)}

MinOf(s) == CHOOSE x \in Range(s) : \A y \in Range(s) : x <= y

MaxOf(s) == CHOOSE x \in Range(s) : \A y \in Range(s) : x >= y

\* the indices 1..n at which the boolean mask holds, in increasing order
Select(mask, n) == SelectSeq([i \in 1..n |-> i], LAMBDA i : mask[i])

\* s sorted in increasing order
RECURSIVE Sorted(_)
Sorted(s) ==
  IF s = <<>> THEN <<>>
  ELSE LET m == MinOf(s)
           i == CHOOSE j \in 1..Len(s) : s[j] = m
       IN  <<m>> \o Sorted(SubSeq(s, 1, i - 1) \o SubSeq(s, i + 1, Len(s)))

\* Series.mean()
Mean(s) == Flt(Sum(s), Len(s))

\* Series.median()
Median(s) ==
  LET t == Sorted(s)
      n == Len(s)
  IN  IF n % 2 = 1 THEN Num(t[(n + 1) \div 2])
      ELSE Flt(t[n \div 2] + t[n \div 2 + 1], 2)

\* the population standard deviation (ddof = 0)
StdDdof0(s) ==
  LET n == Len(s)
  IN  [k |-> "sqrt", n |-> n * SumSq(s) - Sum(s) * Sum(s), d |-> n * n]

\* Series.std(): ddof = 1; the variance is sum((x - mean)^2) / (n - 1)
\*   = (n * sum(x^2) - sum(x)^2) / (n * (n - 1)), NaN when n - 1 = 0
Std(s) ==
  LET n == Len(s)
  IN  IF n - 1 <= 0 THEN NaN
      ELSE [k |-> "sqrt", n |-> n * SumSq(s) - Sum(s) * Sum(s), d |-> n * (n - 1)]

-----------------------------------------------------------------------------
(* DataFrames *)

NoCol == [present |-> FALSE, vals |-> <<>>]

Col(v) == [present |-> TRUE, vals |-> v]

None == [isNone |-> TRUE, hasTs |-> FALSE, rows |-> <<>>,
         direction_bin |-> NoCol, hour |-> NoCol]

Frame(hasTs, rows) ==
  [isNone |-> FALSE, hasTs |-> hasTs, rows |-> rows,
   direction_bin |-> NoCol, hour |-> NoCol]

Readings == [wind_speed : SpeedValues, wind_direction : DirectionValues]

ReadingSeqs == UNION {[1..n -> Readings] : n \in 0..MaxLen}

\* the readings r as rows stamped half-hourly from start
Stamped(r, start) ==
  [i \in 1..Len(r) |->
     [timestamp |-> start + (i - 1), wind_speed |-> r[i].wind_speed,
      wind_direction |-> r[i].wind_direction]]

\* the frames a caller can hand to the analyzer: with a timestamp column, or
\* without one (the timestamp field of a row is then 0 and never read)
Frames ==
  {Frame(TRUE, Stamped(r, s)) : r \in ReadingSeqs, s \in StartValues}
    \cup {Frame(FALSE, [i \in 1..Len(r) |-> [timestamp |-> 0,
                          wind_speed |-> r[i].wind_speed,
                          wind_direction |-> r[i].wind_direction]]) : r \in ReadingSeqs}

Speeds(df) == [i \in 1..Len(df.rows) |-> df.rows[i].wind_speed]

Directions(df) == [i \in 1..Len(df.rows) |-> df.rows[i].wind_direction]

\* self.data is None or self.data.empty
NoData(df) == df.isNone \/ Len(df.rows) = 0

\* df[mask].copy(): the rows at which mask holds, with every column of df
Take(df, mask) ==
  LET idx == Select(mask, Len(df.rows))
  IN
  [hasTs |-> df.hasTs,
   index |-> idx,
   rows |-> [i \in 1..Len(idx) |-> df.rows[idx[i]]],
   direction_bin |-> IF df.direction_bin.present
                     THEN Col([i \in 1..Len(idx) |-> df.direction_bin.vals[idx[i]]])
                     ELSE NoCol,
   hour |-> IF df.hour.present
            THEN Col([i \in 1..Len(idx) |-> df.hour.vals[idx[i]]])
            ELSE NoCol]

-----------------------------------------------------------------------------
(* Results *)

Ok(v) == [status |-> "ok", value |-> v]

Raise(msg) == [status |-> "ValueError", value |-> msg]

NoDataLoaded == Raise("No data loaded")

TimestampRequired == Raise("Timestamp column required for daily pattern analysis")

Call(op, arg) == [op |-> op, arg |-> arg]

\* self.data[column] = ...: the frame is changed in place, and table, the
\* caller's reference to it, is a reference to the same object
Store(df) ==
  /\ data' = df
  /\ table' = df

-----------------------------------------------------------------------------
(* Construction and loading *)

\* WindDataAnalyzer() or WindDataAnalyzer(df): self.data = data keeps the
\* caller's frame itself, not a copy
Init ==
  /\ \/ /\ data = None
        /\ table = None
     \/ \E df \in Frames :
          /\ data = df
          /\ table = df
  /\ call = Call("__init__", 0)
  /\ result = Ok(0)

\* load_from_dict(data_dict): a new frame, built from the dictionary, becomes
\* self.data and is returned: the caller holds the frame itself.  The model
\* follows an analyzer through one dataset: the load is taken on an analyzer
\* that was constructed without data.
LoadFromDict ==
  /\ data.isNone
  /\ \E df \in Frames :
       /\ data' = df
       /\ table' = df
       /\ result' = Ok(df)
  /\ call' = Call("load_from_dict", 0)

\* load_data(filepath): the same with the frame read from a CSV file
LoadData ==
  /\ data.isNone
  /\ \E df \in Frames :
       /\ data' = df
       /\ table' = df
       /\ result' = Ok(df)
  /\ call' = Call("load_data", 0)

-----------------------------------------------------------------------------
(* Queries *)

BasicStatistics(df) ==
  LET wind_speed == Speeds(df)
  IN  [mean_speed |-> Mean(wind_speed),
       median_speed |-> Median(wind_speed),
       std_speed |-> Std(wind_speed),
       min_speed |-> Num(MinOf(wind_speed)),
       max_speed |-> Num(MaxOf(wind_speed))]

\* what get_basic_statistics() returns or raises on the frame df
BasicStatisticsReturn(df) ==
  IF NoData(df) THEN NoDataLoaded ELSE Ok(BasicStatistics(df))

GetBasicStatistics ==
  /\ call' = Call("get_basic_statistics", 0)
  /\ result' = BasicStatisticsReturn(data)
  /\ UNCHANGED <<data, table>>

\* the calm filter with <= in place of <
CalmRowsInclusive(df, threshold) ==
  Take(df, [i \in 1..Len(df.rows) |-> df.rows[i].wind_speed <= threshold])

CalmRows(df, threshold) ==
  Take(df, [i \in 1..Len(df.rows) |-> df.rows[i].wind_speed < threshold])

CalmPeriodsReturn(df, threshold) ==
  IF NoData(df) THEN NoDataLoaded ELSE Ok(CalmRows(df, threshold))

DetectCalmPeriods(threshold) ==
  /\ call' = Call("detect_calm_periods", threshold)
  /\ result' = CalmPeriodsReturn(data, threshold)
  /\ UNCHANGED <<data, table>>

StrongRows(df, threshold) ==
  Take(df, [i \in 1..Len(df.rows) |-> df.rows[i].wind_speed > threshold])

StrongWindEventsReturn(df, threshold) ==
  IF NoData(df) THEN NoDataLoaded ELSE Ok(StrongRows(df, threshold))

DetectStrongWindEvents(threshold) ==
  /\ call' = Call("detect_strong_wind_events", threshold)
  /\ result' = StrongWindEventsReturn(data, threshold)
  /\ UNCHANGED <<data, table>>

\* the bin without the wrap by % bins
RoseBinNoWrap(direction, bins) == Trunc(direction * bins, 360)

\* (wind_direction / bin_size).astype(int) % bins, with bin_size = 360 / bins
RoseBin(direction, bins) == Trunc(direction * bins, 360) % bins

\* the loop over range(bins), on a frame that has its direction_bin column;
\* list position i + 1 is bin i
WindRose(df, bins) ==
  LET n == Len(df.rows)
      \* bin_data['wind_speed'] for each bin
      bin_speeds ==
        [i \in 0..(bins - 1) |->
           LET idx == Select([j \in 1..n |-> df.direction_bin.vals[j] = i], n)
           IN  [j \in 1..Len(idx) |-> df.rows[idx[j]].wind_speed]]
  IN  [directions |-> [i \in 1..bins |-> Flt((i - 1) * 360, bins)],
       frequencies |-> [i \in 1..bins |-> Flt(Len(bin_speeds[i - 1]) * 100, n)],
       avg_speeds |-> [i \in 1..bins |->
                         IF Len(bin_speeds[i - 1]) > 0 THEN Mean(bin_speeds[i - 1])
                         ELSE Num(0)]]

\* the frame built anew from the loaded columns and the bins: hour is dropped
WithRoseBinsRebuilt(df, bins) ==
  [df EXCEPT !.direction_bin =
     Col([i \in 1..Len(df.rows) |-> RoseBin(df.rows[i].wind_direction, bins)]),
             !.hour = NoCol]

\* self.data['direction_bin'] = ...
WithRoseBins(df, bins) ==
  [df EXCEPT !.direction_bin =
     Col([i \in 1..Len(df.rows) |-> RoseBin(df.rows[i].wind_direction, bins)])]

WindRoseReturn(df, bins) ==
  IF NoData(df) THEN NoDataLoaded ELSE Ok(WindRose(WithRoseBins(df, bins), bins))

GetWindRoseData(bins) ==
  /\ call' = Call("get_wind_rose_data", bins)
  /\ result' = WindRoseReturn(data, bins)
  /\ IF NoData(data) THEN UNCHANGED <<data, table>>
     ELSE Store(WithRoseBins(data, bins))

\* Series.rolling(window).max() and .mean(): NaN until window values are seen
RollingMax(s, window) ==
  [i \in 1..Len(s) |->
     IF i < window THEN NaN ELSE Num(MaxOf(SubSeq(s, i - window + 1, i)))]

RollingMean(s, window) ==
  [i \in 1..Len(s) |->
     IF i < window THEN NaN ELSE Flt(Sum(SubSeq(s, i - window + 1, i)), window)]

\* the gust factor over the window that starts, not ends, at each position
GustFactorLeading(df, window) ==
  LET s == Speeds(df)
  IN  [i \in 1..Len(s) |->
         IF i + window - 1 > Len(s) THEN NaN
         ELSE FltDiv(Num(MaxOf(SubSeq(s, i, i + window - 1))),
                     Flt(Sum(SubSeq(s, i, i + window - 1)), window))]

GustFactor(df, window) ==
  LET rolling_max == RollingMax(Speeds(df), window)
      rolling_mean == RollingMean(Speeds(df), window)
  IN  [i \in 1..Len(df.rows) |-> FltDiv(rolling_max[i], rolling_mean[i])]

GustFactorReturn(df, window) ==
  IF NoData(df) THEN NoDataLoaded ELSE Ok(GustFactor(df, window))

CalculateGustFactor(window) ==
  /\ call' = Call("calculate_gust_factor", window)
  /\ result' = GustFactorReturn(data, window)
  /\ UNCHANGED <<data, table>>

\* the rounded bin without the wrap by % 16
PrevailingBinNoWrap(direction) == Round(direction * 2, 45)

\* (wind_direction / 22.5).round() % 16
PrevailingBin(direction) == Round(direction * 2, 45) % 16

\* the largest, not the smallest, of the most frequent values
ModeLargest(s) ==
  LET Count(v) == Cardinality({i \in 1..Len(s) : s[i] = v})
      modes == {v \in Range(s) : \A w \in Range(s) : Count(v) >= Count(w)}
  IN  CHOOSE v \in modes : \A w \in modes : v >= w

\* Series.mode()[0]: the smallest of the most frequent values
Mode(s) ==
  LET Count(v) == Cardinality({i \in 1..Len(s) : s[i] = v})
      modes == {v \in Range(s) : \A w \in Range(s) : Count(v) >= Count(w)}
  IN  CHOOSE v \in modes : \A w \in modes : v <= w

\* on a frame that has its direction_bin column
PrevailingDirection(df) ==
  LET bins == df.direction_bin.vals
      most_common_bin == Mode(bins)
      hits == Cardinality({i \in 1..Len(bins) : bins[i] = most_common_bin})
  IN  [direction |-> Flt(most_common_bin * 45, 2),
       percentage |-> Flt(hits * 100, Len(df.rows))]

\* self.data['direction_bin'] = ...
WithPrevailingBins(df) ==
  [df EXCEPT !.direction_bin =
     Col([i \in 1..Len(df.rows) |-> PrevailingBin(df.rows[i].wind_direction)])]

PrevailingDirectionReturn(df) ==
  IF NoData(df) THEN NoDataLoaded ELSE Ok(PrevailingDirection(WithPrevailingBins(df)))

GetPrevailingDirection ==
  /\ call' = Call("get_prevailing_direction", 0)
  /\ result' = PrevailingDirectionReturn(data)
  /\ IF NoData(data) THEN UNCHANGED <<data, table>>
     ELSE Store(WithPrevailingBins(data))

\* the hours since day 0 instead of the hour of the day
HourOfNoWrap(timestamp) == timestamp \div 2

\* Timestamp.hour of a timestamp in half-hours
HourOf(timestamp) == (timestamp \div 2) % 24

\* groupby('hour')['wind_speed'].agg(['mean', 'std', 'min', 'max']) on a frame
\* that has its hour column: one row per hour in the column
HourlyStats(df) ==
  LET n == Len(df.rows)
      GroupSpeeds(h) == LET idx == Select([j \in 1..n |-> df.hour.vals[j] = h], n)
                        IN  [j \in 1..Len(idx) |-> df.rows[idx[j]].wind_speed]
  IN  [h \in Range(df.hour.vals) |->
         [mean |-> Mean(GroupSpeeds(h)),
          std |-> Std(GroupSpeeds(h)),
          min |-> Num(MinOf(GroupSpeeds(h))),
          max |-> Num(MaxOf(GroupSpeeds(h)))]]

\* the hour written over the timestamp column as well
WithHoursInPlace(df) ==
  [df EXCEPT !.hour = Col([i \in 1..Len(df.rows) |-> HourOf(df.rows[i].timestamp)]),
             !.rows = [i \in 1..Len(df.rows) |->
                         [df.rows[i] EXCEPT !.timestamp = HourOf(df.rows[i].timestamp)]]]

\* self.data['hour'] = self.data['timestamp'].dt.hour
WithHours(df) ==
  [df EXCEPT !.hour = Col([i \in 1..Len(df.rows) |-> HourOf(df.rows[i].timestamp)])]

\* analyze_daily_pattern() with its two checks in the other order
DailyPatternTimestampFirst(df) ==
  IF ~df.hasTs THEN TimestampRequired
  ELSE IF NoData(df) THEN NoDataLoaded
  ELSE Ok(HourlyStats(WithHours(df)))

DailyPatternReturn(df) ==
  IF NoData(df) THEN NoDataLoaded
  ELSE IF ~df.hasTs THEN TimestampRequired
  ELSE Ok(HourlyStats(WithHours(df)))

AnalyzeDailyPattern ==
  /\ call' = Call("analyze_daily_pattern", 0)
  /\ result' = DailyPatternReturn(data)
  /\ IF NoData(data) \/ ~data.hasTs THEN UNCHANGED <<data, table>>
     ELSE Store(WithHours(data))

\* the power density with the square of the speed
PowerOfSquare(air_density, speed) == Flt(air_density * speed * speed, 2000)

\* 0.5 * air_density * wind_speed ** 3, air_density in thousandths
PowerOf(air_density, speed) == Flt(air_density * speed * speed * speed, 2000)

PowerDensity(df, air_density) ==
  [i \in 1..Len(df.rows) |-> PowerOf(air_density, df.rows[i].wind_speed)]

PowerDensityReturn(df, air_density) ==
  IF NoData(df) THEN NoDataLoaded ELSE Ok(PowerDensity(df, air_density))

CalculatePowerDensity(air_density) ==
  /\ call' = Call("calculate_power_density", air_density)
  /\ result' = PowerDensityReturn(data, air_density)
  /\ UNCHANGED <<data, table>>

-----------------------------------------------------------------------------
(* The summary report *)

DefaultCalmThreshold == 2
DefaultStrongThreshold == 10
DefaultAirDensity == 1225

RECURSIVE Pow10(_)
Pow10(p) == IF p = 0 THEN 1 ELSE 10 * Pow10(p - 1)

\* the integer part of the square root of m >= 0
RECURSIVE ISqrt(_)
ISqrt(m) ==
  IF m < 2 THEN m
  ELSE LET s == 2 * ISqrt(m \div 4)
       IN  IF (s + 1) * (s + 1) <= m THEN s + 1 ELSE s

\* f"{x:.<places>f}": the value in units of 10^-places, or nan / inf.  For a
\* square root sqrt(n/d) the nearest unit is floor((sqrt(4 * 10^2p * n/d) + 1) / 2)
Format(x, places) ==
  IF x.k = "num" THEN [k |-> "num", v |-> Round(x.n * Pow10(places), x.d)]
  ELSE IF x.k = "sqrt"
  THEN [k |-> "num",
        v |-> (ISqrt((4 * Pow10(2 * places) * x.n) \div x.d) + 1) \div 2]
  ELSE [k |-> x.k, v |-> x.n]

\* Series.mean() of the power densities
MeanPower(df) ==
  Flt(Sum([i \in 1..Len(df.rows) |->
             DefaultAirDensity * df.rows[i].wind_speed * df.rows[i].wind_speed
               * df.rows[i].wind_speed]),
      2000 * Len(df.rows))

\* the fields of the report text, on a frame that has its direction_bin column
SummaryReport(df) ==
  LET stats == BasicStatistics(df)
      prevailing == PrevailingDirection(df)
  IN  [total |-> Len(df.rows),
       mean_speed |-> Format(stats.mean_speed, 2),
       median_speed |-> Format(stats.median_speed, 2),
       std_speed |-> Format(stats.std_speed, 2),
       min_speed |-> Format(stats.min_speed, 2),
       max_speed |-> Format(stats.max_speed, 2),
       prevailing_dir |-> Format(prevailing.direction, 1),
       prevailing_pct |-> Format(prevailing.percentage, 1),
       calm_periods |-> Len(CalmRows(df, DefaultCalmThreshold).rows),
       strong_events |-> Len(StrongRows(df, DefaultStrongThreshold).rows),
       avg_power |-> Format(MeanPower(df), 2)]

SummaryReportReturn(df) ==
  IF NoData(df) THEN NoDataLoaded ELSE Ok(SummaryReport(WithPrevailingBins(df)))

\* the only write is the one of get_prevailing_direction()
GetSummaryReport ==
  /\ call' = Call("get_summary_report", 0)
  /\ result' = SummaryReportReturn(data)
  /\ IF NoData(data) THEN UNCHANGED <<data, table>>
     ELSE Store(WithPrevailingBins(data))

-----------------------------------------------------------------------------

Next ==
  \/ LoadData
  \/ LoadFromDict
  \/ GetBasicStatistics
  \/ \E bins \in BinsArgs : GetWindRoseData(bins)
  \/ \E t \in ThresholdArgs : DetectCalmPeriods(t)
  \/ \E t \in ThresholdArgs : DetectStrongWindEvents(t)
  \/ \E window \in WindowArgs : CalculateGustFactor(window)
  \/ GetPrevailingDirection
  \/ AnalyzeDailyPattern
  \/ \E air_density \in AirDensityArgs : CalculatePowerDensity(air_density)
  \/ GetSummaryReport

Spec == Init /\ [][Next]_vars

-----------------------------------------------------------------------------
(* Properties *)

QueryOps ==
  {"get_basic_statistics", "get_wind_rose_data", "detect_calm_periods",
   "detect_strong_wind_events", "calculate_gust_factor",
   "get_prevailing_direction", "analyze_daily_pattern",
   "calculate_power_density", "get_summary_report"}

Raised(r, msg) == r.status = "ValueError" /\ r.value = msg

Returned(op) == call.op = op /\ result.status = "ok"

N == Len(data.rows)

SpeedAt(i) == data.rows[i].wind_speed

DirectionAt(i) == data.rows[i].wind_direction

\* C1: whenever self.data is None or has zero rows, every query raises
\* ValueError("No data loaded") and returns nothing, whatever its arguments.
C1_EmptyDatasetError ==
  (call.op \in QueryOps /\ NoData(data)) => Raised(result, "No data loaded")

\* a query was called on a loaded frame of zero rows, and on no frame at all
C1_Witness ==
  /\ call.op = "get_wind_rose_data"
  /\ ~data.isNone
  /\ N = 0
  /\ Raised(result, "No data loaded")

\* v holds exactly the rows of self.data at the indices keep, in frame order
IsSubframe(v, keep) ==
  /\ Len(v.index) = Cardinality(keep)
  /\ Range(v.index) = keep
  /\ \A j \in 1..(Len(v.index) - 1) : v.index[j] < v.index[j + 1]
  /\ Len(v.rows) = Len(v.index)
  /\ \A j \in 1..Len(v.index) : v.rows[j] = data.rows[v.index[j]]

\* C2: on a non-empty frame detect_calm_periods(t) returns exactly the rows
\* with wind_speed < t and detect_strong_wind_events(t) exactly those with
\* wind_speed > t, in frame order and never as an error; for the same t no row
\* is in both and a row with wind_speed = t is in neither.
C2_CalmAndStrong ==
  /\ (call.op = "detect_calm_periods" /\ ~NoData(data)) =>
        /\ result.status = "ok"
        /\ IsSubframe(result.value, {i \in 1..N : SpeedAt(i) < call.arg})
  /\ (call.op = "detect_strong_wind_events" /\ ~NoData(data)) =>
        /\ result.status = "ok"
        /\ IsSubframe(result.value, {i \in 1..N : SpeedAt(i) > call.arg})
  /\ ~NoData(data) =>
        \A t \in ThresholdArgs :
          LET calm == Range(CalmRows(data, t).index)
              strong == Range(StrongRows(data, t).index)
          IN  /\ calm \cap strong = {}
              /\ \A i \in 1..N : SpeedAt(i) = t => i \notin calm \cup strong

\* calm periods of a two-row frame: one row below the threshold, one on it
C2_Witness ==
  /\ Returned("detect_calm_periods")
  /\ N = 2
  /\ Len(result.value.rows) = 1
  /\ \E i \in 1..N : SpeedAt(i) = call.arg

\* C3: on a non-empty frame get_wind_rose_data(bins) returns three lists of
\* length bins whose frequencies sum to 100: every row, whatever its
\* direction, has a bin in 0..bins-1 and is counted in that bin only.
C3_WindRoseFrequencies ==
  (call.op = "get_wind_rose_data" /\ ~NoData(data)) =>
    /\ result.status = "ok"
    /\ LET r == result.value
           bins == call.arg
       IN  /\ Len(r.directions) = bins
           /\ Len(r.frequencies) = bins
           /\ Len(r.avg_speeds) = bins
           /\ \A j \in 1..N : data.direction_bin.vals[j] \in 0..(bins - 1)
           /\ \A i \in 1..bins : r.frequencies[i].k = "num" /\ r.frequencies[i].d = N
           /\ Sum([i \in 1..bins |-> r.frequencies[i].n]) = 100 * N

\* a 16-bin wind rose of a frame with a negative direction and one >= 360
C3_Witness ==
  /\ Returned("get_wind_rose_data")
  /\ call.arg = 16
  /\ \E i \in 1..N : DirectionAt(i) < 0
  /\ \E i \in 1..N : DirectionAt(i) >= 360

\* C4: on a frame of n >= 1 rows with speeds >= 0, calculate_gust_factor(window)
\* returns n values; value i is missing while fewer than window rows end at
\* i, and otherwise, when the window mean is not 0, it is max / mean of the
\* window speeds that end at i, and is >= 0.
C4_GustFactor ==
  (call.op = "calculate_gust_factor" /\ ~NoData(data)
     /\ \A i \in 1..N : SpeedAt(i) >= 0) =>
    /\ result.status = "ok"
    /\ Len(result.value) = N
    /\ \A i \in 1..N :
         LET window == call.arg
             slice == SubSeq(Speeds(data), i - window + 1, i)
             g == result.value[i]
         IN  IF i < window THEN g.k = "nan"
             ELSE Sum(slice) # 0 =>
                    /\ g.k = "num"
                    /\ g.n * Sum(slice) = MaxOf(slice) * window * g.d
                    /\ g.n >= 0

\* window 2 over the speeds 0, 2: missing, then 2 / 1
C4_Witness ==
  /\ Returned("calculate_gust_factor")
  /\ call.arg = 2
  /\ N = 2
  /\ SpeedAt(1) = 0 /\ SpeedAt(2) = 2
  /\ result.value[1].k = "nan"
  /\ result.value[2].k = "num" /\ result.value[2].n = 2 * result.value[2].d

\* C5: on a non-empty frame get_prevailing_direction() returns a direction in
\* [0, 360) that is a multiple of 22.5 and a percentage in (0, 100], which is
\* 100 when all rows have the same direction.
C5_PrevailingDirection ==
  (call.op = "get_prevailing_direction" /\ ~NoData(data)) =>
    /\ result.status = "ok"
    /\ LET dir == result.value.direction
           pct == result.value.percentage
       IN  /\ dir.k = "num"
           /\ 0 <= dir.n /\ dir.n < 360 * dir.d
           /\ (2 * dir.n) % (45 * dir.d) = 0
           /\ pct.k = "num"
           /\ 0 < pct.n /\ pct.n <= 100 * pct.d
           /\ (\A i, j \in 1..N : DirectionAt(i) = DirectionAt(j)) =>
                 pct.n = 100 * pct.d

\* two rows of direction 380: the prevailing direction is 22.5, 100 percent
C5_Witness ==
  /\ Returned("get_prevailing_direction")
  /\ N = 2
  /\ \A i \in 1..N : DirectionAt(i) = 380
  /\ 2 * result.value.direction.n = 45 * result.value.direction.d
  /\ result.value.percentage.n = 100 * result.value.percentage.d

Leq(x, y) == x.k = "num" /\ y.k = "num" /\ x.n * y.d <= y.n * x.d

\* min and max are the extrema of the speeds and min <= mean <= max
ExtremaAndMean(stats) ==
  /\ stats.min_speed.k = "num" /\ stats.min_speed.d = 1
  /\ stats.max_speed.k = "num" /\ stats.max_speed.d = 1
  /\ \E i \in 1..N : SpeedAt(i) = stats.min_speed.n
  /\ \E i \in 1..N : SpeedAt(i) = stats.max_speed.n
  /\ \A i \in 1..N : stats.min_speed.n <= SpeedAt(i) /\ SpeedAt(i) <= stats.max_speed.n
  /\ Leq(stats.min_speed, stats.mean_speed)
  /\ Leq(stats.mean_speed, stats.max_speed)

\* C6 as stated: on every non-empty frame, one of a single row included,
\* min <= mean <= max and the standard deviation is a number >= 0.
C6_AsStated ==
  (call.op = "get_basic_statistics" /\ ~NoData(data)) =>
    /\ result.status = "ok"
    /\ ExtremaAndMean(result.value)
    /\ result.value.std_speed.k = "sqrt"
    /\ result.value.std_speed.n >= 0

\* C6: on every non-empty frame get_basic_statistics() returns the extrema
\* of the speeds as min and max, with min <= mean <= max; on a frame of two
\* or more rows the standard deviation is the root of
\* sum((x - mean)^2) / (n - 1), a number >= 0, and on a frame of one row it
\* is missing (NaN).
C6_BasicStatistics ==
  (call.op = "get_basic_statistics" /\ ~NoData(data)) =>
    /\ result.status = "ok"
    /\ ExtremaAndMean(result.value)
    /\ LET std == result.value.std_speed
           total == Sum(Speeds(data))
           \* N^2 * sum((x - mean)^2)
           squares == Sum([i \in 1..N |-> (N * SpeedAt(i) - total) * (N * SpeedAt(i) - total)])
       IN  IF N = 1 THEN std.k = "nan"
           ELSE /\ std.k = "sqrt"
                /\ std.n >= 0
                /\ std.n * N * N * (N - 1) = squares * std.d

\* the statistics of a frame of one row
C6_Witness ==
  /\ Returned("get_basic_statistics")
  /\ N = 1
  /\ result.value.std_speed.k = "nan"
  /\ result.value.mean_speed.n = SpeedAt(1) * result.value.mean_speed.d

\* C7: on a non-empty frame calculate_power_density(air_density) returns one
\* value per row, in order, equal to 0.5 * air_density * wind_speed^3; it is
\* >= 0 when speed and air density are, and doubling the air density doubles
\* every value.  (air_density is in thousandths: the value is a * s^3 / 2000.)
C7_PowerDensity ==
  (call.op = "calculate_power_density" /\ ~NoData(data)) =>
    /\ result.status = "ok"
    /\ Len(result.value) = N
    /\ \A i \in 1..N :
         LET p == result.value[i]
             s == SpeedAt(i)
             twice == PowerDensity(data, 2 * call.arg)[i]
         IN  /\ p.k = "num"
             /\ p.n * 2000 = call.arg * s * s * s * p.d
             /\ (s >= 0 /\ call.arg >= 0) => p.n >= 0
             /\ twice.k = "num"
             /\ twice.n * p.d = 2 * p.n * twice.d

\* air density 1.225 and a row of speed 2: 0.5 * 1.225 * 8 = 4.9
C7_Witness ==
  /\ Returned("calculate_power_density")
  /\ call.arg = 1225
  /\ \E i \in 1..N : SpeedAt(i) = 2 /\ 10 * result.value[i].n = 49 * result.value[i].d

\* what the call c returns when it is made on the frame df
Rerun(df, c) ==
  CASE c.op = "get_basic_statistics" -> BasicStatisticsReturn(df)
    [] c.op = "get_wind_rose_data" -> WindRoseReturn(df, c.arg)
    [] c.op = "detect_calm_periods" -> CalmPeriodsReturn(df, c.arg)
    [] c.op = "detect_strong_wind_events" -> StrongWindEventsReturn(df, c.arg)
    [] c.op = "calculate_gust_factor" -> GustFactorReturn(df, c.arg)
    [] c.op = "get_prevailing_direction" -> PrevailingDirectionReturn(df)
    [] c.op = "analyze_daily_pattern" -> DailyPatternReturn(df)
    [] c.op = "calculate_power_density" -> PowerDensityReturn(df, c.arg)
    [] c.op = "get_summary_report" -> SummaryReportReturn(df)

SameResult(a, b) == a.status = b.status /\ a.value = b.value

\* C8: a query is idempotent: in the state a query leaves, frame as the query
\* changed it, the same query with the same arguments returns what it has
\* just returned.
C8_Idempotent ==
  call.op \in QueryOps => SameResult(Rerun(data, call), result)

\* a query has returned rows of a frame that earlier queries have given
\* both helper columns
C8_Witness ==
  /\ Returned("detect_calm_periods")
  /\ data.direction_bin.present
  /\ data.hour.present
  /\ Len(result.value.rows) > 0
  /\ result.value.hour.present

HourAt(i) == (data.rows[i].timestamp \div 2) % 24

SpeedsOfHour(h) ==
  LET idx == SelectSeq([i \in 1..N |-> i], LAMBDA i : HourAt(i) = h)
  IN  [j \in 1..Len(idx) |-> SpeedAt(idx[j])]

\* C9: analyze_daily_pattern() raises the empty-dataset error on an empty
\* frame, whether or not it has timestamps, and the missing-timestamp error on
\* a non-empty frame without timestamps; otherwise it returns one entry for
\* each hour of the day that some row has, and no other, with the mean, std,
\* min and max of the speeds of exactly the rows of that hour.
C9_DailyPattern ==
  call.op = "analyze_daily_pattern" =>
    /\ NoData(data) => Raised(result, "No data loaded")
    /\ (~NoData(data) /\ ~data.hasTs) =>
          Raised(result, "Timestamp column required for daily pattern analysis")
    /\ (~NoData(data) /\ data.hasTs) =>
          /\ result.status = "ok"
          /\ DOMAIN result.value = {HourAt(i) : i \in 1..N}
          /\ \A h \in DOMAIN result.value :
               /\ result.value[h].mean = Mean(SpeedsOfHour(h))
               /\ result.value[h].std = Std(SpeedsOfHour(h))
               /\ result.value[h].min = Num(MinOf(SpeedsOfHour(h)))
               /\ result.value[h].max = Num(MaxOf(SpeedsOfHour(h)))

\* readings at 23:30 and 00:00: two hours, 23 and 0
C9_Witness ==
  /\ Returned("analyze_daily_pattern")
  /\ N = 2
  /\ DOMAIN result.value = {0, 23}

\* floor of n/d, d > 0
Floor(n, d) == n \div d

\* C10: in get_wind_rose_data(bins) the bin of every row is
\* floor(direction / (360 / bins)) mod bins, for negative directions and
\* directions >= 360 too; directions[i] = i * 360 / bins, and avg_speeds[i] is
\* the mean speed of the rows of bin i, or 0 when the bin is empty.
C10_FloorBins ==
  (call.op = "get_wind_rose_data" /\ ~NoData(data)) =>
    /\ result.status = "ok"
    /\ LET bins == call.arg
           FloorBin(j) == Floor(DirectionAt(j) * bins, 360) % bins
           BinSpeeds(b) ==
             LET idx == SelectSeq([j \in 1..N |-> j], LAMBDA j : FloorBin(j) = b)
             IN  [j \in 1..Len(idx) |-> SpeedAt(idx[j])]
       IN  /\ \A j \in 1..N : data.direction_bin.vals[j] = FloorBin(j)
           /\ \A i \in 1..bins :
                /\ result.value.directions[i] = Flt((i - 1) * 360, bins)
                /\ result.value.avg_speeds[i] =
                     IF BinSpeeds(i - 1) = <<>> THEN Num(0) ELSE Mean(BinSpeeds(i - 1))

\* the integer nearest to direction / 22.5, wrapped into 0..15
NearestBin(i) ==
  CHOOSE b \in 0..15 :
    \E r \in -40..40 : 2 * (45 * r - 2 * DirectionAt(i)) \in -45..45 /\ b = r % 16

\* the number of rows whose nearest-integer bin is b
BinCount(b) == Cardinality({i \in 1..N : NearestBin(i) = b})

\* C11: get_prevailing_direction() puts each row in bin
\* round(direction / 22.5) mod 16 and returns the centre, 22.5 times the bin,
\* of the bin that holds the most rows; of several bins that hold the most
\* rows it returns the one of lowest index.
C11_PrevailingBin ==
  (call.op = "get_prevailing_direction" /\ ~NoData(data)) =>
    /\ result.status = "ok"
    /\ \A i \in 1..N : data.direction_bin.vals[i] = NearestBin(i)
    /\ \E b \in 0..15 :
         /\ result.value.direction = Flt(b * 45, 2)
         /\ \A c \in 0..15 : BinCount(c) <= BinCount(b)
         /\ \A c \in 0..(b - 1) : BinCount(c) < BinCount(b)

\* rows of direction -50 then 380: bins 14 and 1 hold one row each and the
\* answer is bin 1, the lower one, which is the bin of the second row; 380
\* rounds to bin 1 where get_wind_rose_data(16) truncates it to bin 0
C11_Witness ==
  /\ Returned("get_prevailing_direction")
  /\ N = 2
  /\ DirectionAt(1) = -50 /\ DirectionAt(2) = 380
  /\ data.direction_bin.vals = <<14, 1>>
  /\ RoseBin(DirectionAt(2), 16) = 0
  /\ result.value.direction = Flt(45, 2)

\* the speeds of the window of call.arg rows that ends at row i
WindowAt(i) == SubSeq(Speeds(data), i - call.arg + 1, i)

\* C12: in calculate_gust_factor(window), wherever the speeds of the window
\* that ends at a row have mean 0, rows of negative and positive speeds that
\* cancel included, the value at that row is missing (NaN): it is neither a
\* number nor an infinity.
C12_ZeroMeanMissing ==
  (call.op = "calculate_gust_factor" /\ ~NoData(data)) =>
    /\ result.status = "ok"
    /\ \A i \in call.arg..N :
         Sum(WindowAt(i)) = 0 => result.value[i] = NaN

\* the frame as it was loaded: the rows of df and no helper column
AsLoaded(df) ==
  IF df.isNone THEN df ELSE [df EXCEPT !.direction_bin = NoCol, !.hour = NoCol]

\* C13: the result of a query depends on the loaded rows and the arguments
\* only: whatever queries ran since the load, a query returns what the same
\* call returns on the frame as it was loaded; in particular the rows that
\* detect_calm_periods and detect_strong_wind_events return do not depend on
\* an earlier get_wind_rose_data, get_prevailing_direction or
\* analyze_daily_pattern.
C13_PureOfSamples ==
  call.op \in QueryOps => SameResult(Rerun(AsLoaded(data), call), result)

\* the step leaves the rows of the frame, and whether it has timestamps, alone
SamplesKept ==
  /\ data'.isNone = data.isNone
  /\ data'.hasTs = data.hasTs
  /\ data'.rows = data.rows

\* C14 as stated: get_basic_statistics, detect_calm_periods,
\* detect_strong_wind_events, analyze_daily_pattern, calculate_power_density
\* and get_summary_report leave the frame entirely unchanged, and no query
\* changes the rows.
C14_AsStated ==
  [][/\ call'.op \in QueryOps => SamplesKept
     /\ call'.op \in {"get_basic_statistics", "detect_calm_periods",
                      "detect_strong_wind_events", "analyze_daily_pattern",
                      "calculate_power_density", "get_summary_report"} =>
          data' = data]_vars

\* C14: the queries that write to the frame are get_wind_rose_data,
\* get_prevailing_direction and get_summary_report, which write the
\* direction_bin column and nothing else on a non-empty frame, and
\* analyze_daily_pattern, which writes the hour column and nothing else on a
\* non-empty frame with timestamps; get_basic_statistics, detect_calm_periods,
\* detect_strong_wind_events, calculate_gust_factor and
\* calculate_power_density leave the frame entirely unchanged, as does every
\* query that raises; no query changes the number, order or values of the rows.
C14_FrameEffects ==
  [][call'.op \in QueryOps =>
       /\ SamplesKept
       /\ result'.status # "ok" => data' = data
       /\ call'.op \in {"get_basic_statistics", "detect_calm_periods",
                        "detect_strong_wind_events", "calculate_gust_factor",
                        "calculate_power_density"} =>
            data' = data
       /\ call'.op \in {"get_wind_rose_data", "get_prevailing_direction",
                        "get_summary_report"} =>
            /\ data'.hour = data.hour
            /\ result'.status = "ok" =>
                  /\ data'.direction_bin.present
                  /\ Len(data'.direction_bin.vals) = Len(data.rows)
       /\ call'.op = "analyze_daily_pattern" =>
            /\ data'.direction_bin = data.direction_bin
            /\ result'.status = "ok" =>
                  /\ data'.hour.present
                  /\ Len(data'.hour.vals) = Len(data.rows)]_vars

\* analyze_daily_pattern() has returned and the frame, which no other query
\* has written to, has the hour column
C14_Witness ==
  /\ Returned("analyze_daily_pattern")
  /\ N = 2
  /\ data.hour.present
  /\ data.hour.vals = <<23, 0>>
  /\ ~data.direction_bin.present

\* C15: the frame belongs to the analyzer alone: a table that the caller
\* passed to WindDataAnalyzer(table) is not changed by any query made
\* afterwards, so the caller sees in its table after a query what it saw
\* before it.  Stated for the first query after the construction, the step
\* at which the table is still as the caller passed it.
C15_CallerTableUnchanged ==
  [][(call.op = "__init__" /\ ~table.isNone /\ call'.op \in QueryOps) =>
        table' = table]_vars

====
